---- MODULE Spec2Model ----
(***************************************************************************)
(* Model of src/src/nc_process.c: the master control loop                  *)
(* (nc_multi_processes_cycle), the listener-generation builder             *)
(* (nc_setup_listener_for_workers), the socket migrator                    *)
(* (nc_migrate_proxies), the worker spawner (nc_spawn_workers) and the     *)
(* shutdown sequencer (nc_shutdown_workers).                               *)
(*                                                                         *)
(* The master is one sequential process; pc is its position in the code.   *)
(* The only asynchronous writer is the signal handler nc_reload_config,    *)
(* which sets pm_reload and may run between any two steps of the master.   *)
(* Heap objects are kept in sequences indexed by their identity:           *)
(*   ctxs  : struct context      (cf, pool array, alive)                   *)
(*   conns : struct conn         (owner back-reference, open)              *)
(*   chans : struct channel      (open, number of quit writes attempted)   *)
(* A pointer is an index into its sequence, NULL is 0.                     *)
(*                                                                         *)
(* Every process fork() creates has a record in children, with its own     *)
(* position (pc), its pm_myrole, its loop index and its copy of the        *)
(* memory.  Spec follows the master and leaves the children where fork     *)
(* put them; SpecFork adds the steps of the children (the prune of         *)
(* nc_close_other_proxies, nc_worker_process) to the master's start-up.    *)
(***************************************************************************)
EXTENDS Integers, Sequences, FiniteSets, TLC

\* ------------------------------------------------------------------ bounds
MaxWorkers == 2      \* largest worker_processes value a configuration holds
MaxPools   == 2      \* largest number of pools a configuration holds
MaxSignals == 2      \* reload requests delivered in one run

\* --------------------------------------------------------------- constants
NULL == 0
MasterPid == 0       \* parent_nci->pid, copied into every clone by nc_memcpy

Addrs == {"a", "b"}

\* The configurations the loader may hand to core_ctx_create: a worker count
\* N >= 1 and a non-empty ordered pool list; a pool is a bind address and a
\* name.  The name is derived from the position here (it is a label only).
PoolLists == UNION {[1..k -> Addrs] : k \in 1..MaxPools}
Confs == [worker_processes : 1..MaxWorkers, pools : PoolLists]

VARIABLES
    pc,           \* position of the master in nc_multi_processes_cycle
    status,       \* rstatus_t status of nc_multi_processes_cycle
    pm_reload,    \* global flag, line 13
    pm_respawn,   \* global flag, line 14
    parent,       \* *parent_nci without its workers array: ctx, pid, chan, role
    prev_ctx,     \* local of nc_multi_processes_cycle
    workers,      \* parent_nci->workers
    old_workers,  \* local struct array of nc_setup_listener_for_workers
    reloading,    \* parameter of nc_setup_listener_for_workers
    n,            \* local n of nc_setup_listener_for_workers
    i,            \* loop index of the builder / of the spawner
    nelem,        \* local nelem of nc_shutdown_workers
    si,           \* loop index of nc_shutdown_workers
    w,            \* local worker_nci of nc_shutdown_workers (popped element)
    ctxs, conns, chans,   \* the heap
    children,     \* the processes fork() has created, in order
    nsig,         \* reload requests delivered so far
    pre,          \* history: master state when the current reload pass began
    last,         \* history: how the latest reload pass ended
    mig,          \* history: the latest nc_migrate_proxies call
    sd_writes,    \* history: channels written by the current shutdown run
    spawn_fail,   \* history: worker index at which a spawn pass failed, or -1
    npass,        \* history: reload passes begun (line 77) so far
    nburst        \* history: times nc_reload_config found pm_reload clear

vars == <<pc, status, pm_reload, pm_respawn, parent, prev_ctx, workers,
          old_workers, reloading, n, i, nelem, si, w, ctxs, conns, chans,
          children, nsig, pre, last, mig, sd_writes, spawn_fail, npass,
          nburst>>

None == [none |-> TRUE]
NoWorker == [ctx |-> NULL, chan |-> NULL, pid |-> MasterPid, role |-> "MASTER"]

\* ------------------------------------------------------------ collaborators
\* string_compare: 0 exactly when the two strings are equal.
string_compare(s1, s2) == IF s1 = s2 THEN 0 ELSE 1

\* core_ctx_create: a fresh context for configuration cf; every pool of the
\* configuration is present and owns no connection yet.
core_ctx_create(cf) ==
    [cf |-> cf,
     pool |-> [k \in 1..Len(cf.pools) |->
                  [name |-> k, addrstr |-> cf.pools[k], p_conn |-> NULL]],
     alive |-> TRUE]

\* array_n
array_n(a) == Len(a)

\* ---------------------------------------------------------- socket migrator
\* One pass of the inner loop body, lines 307-324, for source pool i and
\* destination pool j of the call nc_migrate_proxies(dst = context d, ...).
\* st holds the two pool arrays, the connections, the number of
\* "has been initialized" errors and of name-change notices logged so far.
\* Line 322 dereferences dst_pool->p_conn right after line 321 copied the
\* source's pointer into it: with a NULL source pointer the master takes a
\* segmentation fault there (crashed).
MigratePair_KeepSrc(st, d, si_, dj) ==
    LET sp == st.src[si_]
        dp == st.dst[dj]
    IN  IF string_compare(dp.addrstr, sp.addrstr) # 0 THEN st
        ELSE IF dp.p_conn # NULL THEN [st EXCEPT !.nerr = @ + 1]
        ELSE IF sp.p_conn = NULL THEN [st EXCEPT !.crashed = TRUE]
        ELSE [st EXCEPT !.dst[dj].p_conn = sp.p_conn,
                        !.conns[sp.p_conn].owner = <<d, dj>>]

MigratePair_Overwrite(st, d, si_, dj) ==
    LET sp == st.src[si_]
        dp == st.dst[dj]
    IN  IF string_compare(dp.addrstr, sp.addrstr) # 0 THEN st
        ELSE IF sp.p_conn = NULL THEN [st EXCEPT !.crashed = TRUE]
        ELSE [st EXCEPT !.dst[dj].p_conn = sp.p_conn,
                        !.conns[sp.p_conn].owner = <<d, dj>>,
                        !.src[si_].p_conn = NULL]

MigratePair_ByName(st, d, si_, dj) ==
    LET sp == st.src[si_]
        dp == st.dst[dj]
    IN  IF string_compare(dp.addrstr, sp.addrstr) # 0
           \/ string_compare(dp.name, sp.name) # 0 THEN st
        ELSE IF dp.p_conn # NULL THEN [st EXCEPT !.nerr = @ + 1]
        ELSE IF sp.p_conn = NULL THEN [st EXCEPT !.crashed = TRUE]
        ELSE [st EXCEPT !.dst[dj].p_conn = sp.p_conn,
                        !.conns[sp.p_conn].owner = <<d, dj>>,
                        !.src[si_].p_conn = NULL]

MigratePair(st, d, si_, dj) ==
    LET sp == st.src[si_]
        dp == st.dst[dj]
    IN  IF string_compare(dp.addrstr, sp.addrstr) # 0 THEN st
        ELSE LET st1 == IF string_compare(dp.name, sp.name) # 0
                        THEN [st EXCEPT !.nren = @ + 1] ELSE st
             IN  IF dp.p_conn # NULL THEN [st1 EXCEPT !.nerr = @ + 1]
                 ELSE IF sp.p_conn = NULL THEN [st1 EXCEPT !.crashed = TRUE]
                 ELSE [st1 EXCEPT !.dst[dj].p_conn = sp.p_conn,
                                  !.conns[sp.p_conn].owner = <<d, dj>>,
                                  !.src[si_].p_conn = NULL]

\* The two nested loops, lines 301-326: sources in array order, and for each
\* source the destinations in array order; nothing runs after a crash.
RECURSIVE MigrateFrom(_, _, _, _)
MigrateFrom(st, d, si_, dj) ==
    IF st.crashed \/ si_ > Len(st.src) THEN st
    ELSE IF dj > Len(st.dst) THEN MigrateFrom(st, d, si_ + 1, 1)
    ELSE MigrateFrom(MigratePair(st, d, si_, dj), d, si_, dj + 1)

\* Line 301 with the outer loop starting at the second source pool.
nc_migrate_proxies_FromSecond(cx, cn, d, s) ==
    MigrateFrom([src |-> cx[s].pool, dst |-> cx[d].pool, conns |-> cn,
                 crashed |-> FALSE, nerr |-> 0, nren |-> 0], d, 2, 1)

\* nc_migrate_proxies(dst, src) on contexts d and s of heap (cx, cn).
nc_migrate_proxies(cx, cn, d, s) ==
    MigrateFrom([src |-> cx[s].pool, dst |-> cx[d].pool, conns |-> cn,
                 crashed |-> FALSE, nerr |-> 0, nren |-> 0], d, 1, 1)

\* ---------------------------------------------------------- listener binder
\* core_init_listener(worker) for context c, stopping before pool `upto`
\* (upto = number of pools + 1: every pool is handled).  A pool that owns a
\* connection keeps it; a pool without one gets a freshly bound connection.
UnboundBefore(pl, upto) == {k \in 1..Len(pl) : k < upto /\ pl[k].p_conn = NULL}

Rank(S, k) == Cardinality({m \in S : m <= k})

BindPools(cx, cn, c, upto) ==
    LET pl == cx[c].pool
        U  == UnboundBefore(pl, upto)
        base == Len(cn)
    IN  [ctxs  |-> [cx EXCEPT ![c].pool =
                       [k \in 1..Len(pl) |->
                           IF k \in U THEN [pl[k] EXCEPT !.p_conn = base + Rank(U, k)]
                           ELSE pl[k]]],
         conns |-> cn \o [r \in 1..Cardinality(U) |->
                            [owner |-> <<c, CHOOSE k \in U : Rank(U, k) = r>>,
                             open |-> TRUE]]]

\* core_ctx_destroy(ctx): the context is gone, and every connection one of
\* its pools still owns is closed with it.
core_ctx_destroy(cx, cn, c) ==
    [ctxs  |-> [cx EXCEPT ![c].alive = FALSE],
     conns |-> [k \in 1..Len(cn) |->
                   IF \E p \in 1..Len(cx[c].pool) : cx[c].pool[p].p_conn = k
                   THEN [cn[k] EXCEPT !.open = FALSE] ELSE cn[k]]]


\* ------------------------------------------------------------------- state
Init ==
    /\ pc = "start"
    /\ status = "NC_OK"
    /\ pm_reload = FALSE
    /\ pm_respawn = FALSE
    /\ \E cf \in Confs : ctxs = <<core_ctx_create(cf)>>
    /\ parent = [ctx |-> 1, chan |-> NULL, pid |-> MasterPid, role |-> "MASTER"]
    /\ prev_ctx = NULL
    /\ workers = <<>>
    /\ old_workers = <<>>
    /\ reloading = FALSE
    /\ n = 0
    /\ i = 0
    /\ nelem = 0
    /\ si = 0
    /\ w = NoWorker
    /\ conns = <<>>
    /\ chans = <<>>
    /\ children = <<>>
    /\ nsig = 0
    /\ pre = None
    /\ last = "none"
    /\ mig = None
    /\ sd_writes = <<>>
    /\ spawn_fail = -1
    /\ npass = 0
    /\ nburst = 0

Running == pc \notin {"returned", "crashed"}

ClearHist == pre' = None /\ last' = "none" /\ sd_writes' = <<>>

\* ------------------------------------------------- nc_multi_processes_cycle
\* Lines 68-69: request the first spawn pass and build the first generation.
Start ==
    /\ pc = "start"
    /\ pm_respawn' = TRUE
    /\ reloading' = FALSE
    /\ pc' = "setup_init"
    /\ UNCHANGED <<status, pm_reload, parent, prev_ctx, workers, old_workers,
                   n, i, nelem, si, w, ctxs, conns, chans, children, nsig,
                   pre, last, mig, sd_writes, spawn_fail,
                   npass, nburst>>

\* Line 76: the test of pm_reload at the top of the loop.
LoopTop ==
    /\ pc = "loop_top"
    /\ pc' = IF pm_reload THEN "reload_clear" ELSE "respawn_check"
    /\ ClearHist
    /\ UNCHANGED <<status, pm_reload, pm_respawn, parent, prev_ctx, workers,
                   old_workers, reloading, n, i, nelem, si, w, ctxs, conns,
                   chans, children, nsig, mig, spawn_fail,
                   npass, nburst>>

\* Line 77 left out: the flag stays set.
ReloadClear_KeepFlag ==
    /\ pc = "reload_clear"
    /\ npass' = npass + 1
    /\ pc' = "reload_ctx"
    /\ UNCHANGED <<status, pm_reload, pm_respawn, parent, prev_ctx, workers,
                   old_workers, reloading, n, i, nelem, si, w, ctxs, conns,
                   chans, children, nsig, pre, last, mig, sd_writes,
                   spawn_fail, nburst>>

\* Line 77.
ReloadClear ==
    /\ pc = "reload_clear"
    /\ pm_reload' = FALSE
    /\ npass' = npass + 1
    /\ pc' = "reload_ctx"
    /\ UNCHANGED <<status, pm_respawn, parent, prev_ctx, workers, old_workers,
                   reloading, n, i, nelem, si, w, ctxs, conns, chans, children,
                   nsig, pre, last, mig, sd_writes, spawn_fail,
                   nburst>>

\* Lines 79-83: core_ctx_create(parent_nci) fails; `continue`.
ReloadCtxFail ==
    /\ pc = "reload_ctx"
    /\ pc' = "loop_top"
    /\ last' = "ctx_failed"
    /\ pre' = [ctx |-> parent.ctx, workers |-> workers, ctxs |-> ctxs,
               respawn |-> pm_respawn]
    /\ UNCHANGED <<status, pm_reload, pm_respawn, parent, prev_ctx, workers,
                   old_workers, reloading, n, i, nelem, si, w, ctxs, conns,
                   chans, children, nsig, mig, sd_writes, spawn_fail,
                   npass, nburst>>

\* Lines 79-87: the new context is created from the configuration as it is
\* now, installed as parent_nci->ctx, and the builder is called (reloading).
ReloadCtx ==
    /\ pc = "reload_ctx"
    /\ \E cf \in Confs : ctxs' = Append(ctxs, core_ctx_create(cf))
    /\ prev_ctx' = parent.ctx
    /\ parent' = [parent EXCEPT !.ctx = Len(ctxs) + 1]
    /\ reloading' = TRUE
    /\ pc' = "setup_init"
    /\ pre' = [ctx |-> parent.ctx, workers |-> workers, ctxs |-> ctxs,
               respawn |-> pm_respawn]
    /\ last' = "running"
    /\ UNCHANGED <<status, pm_reload, pm_respawn, workers, old_workers, n, i,
                   nelem, si, w, conns, chans, children, nsig, mig, sd_writes,
                   spawn_fail,
                   npass, nburst>>

\* Return of nc_setup_listener_for_workers with a failure status st:
\* lines 70-73 at start-up (the cycle returns), lines 88-92 in a reload
\* (the previous context is put back, `continue`).
SetupFailed(st) ==
    IF reloading
    THEN /\ parent' = [parent EXCEPT !.ctx = prev_ctx]
         /\ pc' = "loop_top"
         /\ last' = "setup_failed"
         /\ UNCHANGED status
    ELSE /\ pc' = "returned"
         /\ status' = st
         /\ UNCHANGED <<parent, last>>

\* Lines 98-99 and 106-107: the test of pm_respawn, and sigsuspend when no
\* spawn pass is due.  nc_spawn_workers opens with ASSERT(array_n(workers)
\* > 0), line 163.
RespawnCheck ==
    /\ pc = "respawn_check"
    /\ IF pm_respawn
       THEN /\ pm_respawn' = FALSE
            /\ i' = 0
            /\ pc' = IF array_n(workers) > 0 THEN "spawn_loop" ELSE "crashed"
       ELSE /\ pc' = "sigsuspend"
            /\ UNCHANGED <<pm_respawn, i>>
    /\ ClearHist
    /\ UNCHANGED <<status, pm_reload, parent, prev_ctx, workers, old_workers,
                   reloading, n, nelem, si, w, ctxs, conns, chans, children,
                   nsig, mig, spawn_fail,
                   npass, nburst>>

\* Line 107: sigsuspend returns after a signal other than a reload request
\* was handled.
WakeUp ==
    /\ pc = "sigsuspend"
    /\ pc' = "loop_top"
    /\ UNCHANGED <<status, pm_reload, pm_respawn, parent, prev_ctx, workers,
                   old_workers, reloading, n, i, nelem, si, w, ctxs, conns,
                   chans, children, nsig, pre, last, mig, sd_writes,
                   spawn_fail,
                   npass, nburst>>

\* nc_reload_config, lines 280-284, called by the signal handler: it may
\* interrupt the master anywhere, and ends a sigsuspend.
nc_reload_config ==
    /\ Running
    /\ nsig < MaxSignals
    /\ nsig' = nsig + 1
    /\ nburst' = IF pm_reload THEN nburst ELSE nburst + 1
    /\ pm_reload' = TRUE
    /\ pc' = IF pc = "sigsuspend" THEN "loop_top" ELSE pc
    /\ UNCHANGED <<status, pm_respawn, parent, prev_ctx, workers, old_workers,
                   reloading, n, i, nelem, si, w, ctxs, conns, chans, children,
                   pre, last, mig, sd_writes, spawn_fail,
                   npass>>


\* ------------------------------------------- nc_setup_listener_for_workers
\* Lines 116-130: n is read from the active context's configuration, the
\* previous array is kept in old_workers when reloading, and
\* parent_nci->workers is initialised anew (empty, room for n elements).
SetupInit ==
    /\ pc = "setup_init"
    /\ n' = ctxs[parent.ctx].cf.worker_processes
    /\ old_workers' = IF reloading THEN workers ELSE old_workers
    /\ workers' = <<>>
    /\ i' = 0
    /\ pc' = "setup_loop"
    /\ UNCHANGED <<status, pm_reload, pm_respawn, parent, prev_ctx, reloading,
                   nelem, si, w, ctxs, conns, chans, children, nsig, pre, last,
                   mig, sd_writes, spawn_fail,
                   npass, nburst>>

\* Lines 126-130: array_init fails (no memory).  array_init is not part of
\* this file; its failure is taken to leave the array as it was.
SetupInitFail ==
    /\ pc = "setup_init"
    /\ n' = ctxs[parent.ctx].cf.worker_processes
    /\ old_workers' = IF reloading THEN workers ELSE old_workers
    /\ SetupFailed("NC_ENOMEM")
    /\ UNCHANGED <<pm_reload, pm_respawn, prev_ctx, workers, reloading, i,
                   nelem, si, w, ctxs, conns, chans, children, nsig, pre, mig,
                   sd_writes, spawn_fail,
                   npass, nburst>>

\* Line 132: the loop condition i < n.
LoopFinished_Early == i >= 1

LoopFinished == i >= n

\* Line 140 with the bound off by one.
HasMigrationSource_OffByOne == reloading /\ i <= array_n(old_workers)

\* Line 140: is nc_migrate_proxies called for new worker i?
HasMigrationSource == reloading /\ i < array_n(old_workers)

\* Lines 133-138: array_push, then nc_clone_instance copies *parent_nci into
\* the new element and gives it a context of its own; the role becomes
\* ROLE_WORKER.
SetupClone ==
    /\ pc = "setup_loop"
    /\ ~LoopFinished
    /\ ctxs' = Append(ctxs, core_ctx_create(ctxs[parent.ctx].cf))
    /\ workers' = Append(workers, [ctx |-> Len(ctxs) + 1, chan |-> parent.chan,
                                   pid |-> parent.pid, role |-> "WORKER"])
    /\ pc' = IF HasMigrationSource THEN "setup_migrate" ELSE "setup_bind"
    /\ UNCHANGED <<status, pm_reload, pm_respawn, parent, prev_ctx, old_workers,
                   reloading, n, i, nelem, si, w, conns, chans, children, nsig,
                   pre, last, mig, sd_writes, spawn_fail,
                   npass, nburst>>

\* Lines 133-137 with core_ctx_create failing inside nc_clone_instance
\* (lines 26-30): the pushed element stays the plain copy of *parent_nci,
\* and the builder returns the error.
SetupCloneFail ==
    /\ pc = "setup_loop"
    /\ ~LoopFinished
    /\ workers' = Append(workers, [ctx |-> parent.ctx, chan |-> parent.chan,
                                   pid |-> parent.pid, role |-> parent.role])
    /\ SetupFailed("NC_ERROR")
    /\ UNCHANGED <<pm_reload, pm_respawn, prev_ctx, old_workers, reloading, n,
                   i, nelem, si, w, ctxs, conns, chans, children, nsig, pre,
                   mig, sd_writes, spawn_fail,
                   npass, nburst>>

\* Lines 140-143: nc_migrate_proxies(worker_nci->ctx, old_worker_nci->ctx)
\* for the old worker at the same index.
SetupMigrate ==
    /\ pc = "setup_migrate"
    /\ LET d == workers[i + 1].ctx
           s == old_workers[i + 1].ctx
           r == nc_migrate_proxies(ctxs, conns, d, s)
       IN  /\ ctxs' = [ctxs EXCEPT ![s].pool = r.src, ![d].pool = r.dst]
           /\ conns' = r.conns
           /\ mig' = [d |-> d, s |-> s,
                      pre_src |-> ctxs[s].pool, pre_dst |-> ctxs[d].pool,
                      post_src |-> r.src, post_dst |-> r.dst,
                      crashed |-> r.crashed, nerr |-> r.nerr, nren |-> r.nren]
           /\ pc' = IF r.crashed THEN "crashed" ELSE "setup_bind"
    /\ UNCHANGED <<status, pm_reload, pm_respawn, parent, prev_ctx, workers,
                   old_workers, reloading, n, i, nelem, si, w, chans, children,
                   nsig, pre, last, sd_writes, spawn_fail,
                   npass, nburst>>

\* Lines 145-149: core_init_listener(worker_nci) succeeds.
SetupBind ==
    /\ pc = "setup_bind"
    /\ LET c == workers[i + 1].ctx
           r == BindPools(ctxs, conns, c, Len(ctxs[c].pool) + 1)
       IN  /\ ctxs' = r.ctxs
           /\ conns' = r.conns
    /\ i' = i + 1
    /\ pc' = "setup_loop"
    /\ mig' = None
    /\ UNCHANGED <<status, pm_reload, pm_respawn, parent, prev_ctx, workers,
                   old_workers, reloading, n, nelem, si, w, chans, children,
                   nsig, pre, last, sd_writes, spawn_fail,
                   npass, nburst>>

\* Lines 145-148: core_init_listener fails at one of the pools; the pools
\* before it are bound, and the builder returns the error.
SetupBindFail ==
    /\ pc = "setup_bind"
    /\ LET c == workers[i + 1].ctx
       IN  \E k \in 1..Len(ctxs[c].pool) :
              LET r == BindPools(ctxs, conns, c, k)
              IN  /\ ctxs' = r.ctxs
                  /\ conns' = r.conns
    /\ mig' = None
    /\ SetupFailed("NC_ERROR")
    /\ UNCHANGED <<pm_reload, pm_respawn, prev_ctx, workers, old_workers,
                   reloading, n, i, nelem, si, w, chans, children, nsig, pre,
                   sd_writes, spawn_fail,
                   npass, nburst>>

\* Lines 150-153 at start-up: nothing to shut down, the builder returns
\* NC_OK and the cycle enters its loop (line 75).
SetupDoneFresh ==
    /\ pc = "setup_loop"
    /\ LoopFinished
    /\ ~reloading
    /\ pc' = "loop_top"
    /\ UNCHANGED <<status, pm_reload, pm_respawn, parent, prev_ctx, workers,
                   old_workers, reloading, n, i, nelem, si, w, ctxs, conns,
                   chans, children, nsig, pre, last, mig, sd_writes,
                   spawn_fail,
                   npass, nburst>>

\* Lines 150-152 in a reload: nc_shutdown_workers(&old_workers) is entered
\* (line 201: i = 0, nelem = array_n(workers)).
SetupDoneReload ==
    /\ pc = "setup_loop"
    /\ LoopFinished
    /\ reloading
    /\ si' = 0
    /\ nelem' = array_n(old_workers)
    /\ pc' = "sd_loop"
    /\ UNCHANGED <<status, pm_reload, pm_respawn, parent, prev_ctx, workers,
                   old_workers, reloading, n, i, w, ctxs, conns, chans,
                   children, nsig, pre, last, mig, sd_writes, spawn_fail,
                   npass, nburst>>


\* ------------------------------------------------------ nc_shutdown_workers
\* Line 201: the loop condition i < nelem.
SdMore_OffByOne == si + 1 < nelem

SdMore == si < nelem

\* Lines 204-211: the order of the three steps taken on a popped worker.
SdOrder_ReleaseFirst == <<"sd_dealloc", "sd_write", "sd_destroy">>

SdOrder == <<"sd_write", "sd_dealloc", "sd_destroy">>

SdPos(p) == CHOOSE k \in 1..Len(SdOrder) : SdOrder[k] = p

\* The step after step p of the loop body; after the last one the loop
\* index is incremented and the condition tested again.
SdAdvance(p) ==
    IF SdPos(p) = Len(SdOrder)
    THEN pc' = "sd_loop" /\ si' = si + 1
    ELSE pc' = SdOrder[SdPos(p) + 1] /\ si' = si

\* Lines 201-203: array_pop takes the last element of the array.
SdPop ==
    /\ pc = "sd_loop"
    /\ SdMore
    /\ w' = old_workers[Len(old_workers)]
    /\ old_workers' = SubSeq(old_workers, 1, Len(old_workers) - 1)
    /\ pc' = SdOrder[1]
    /\ UNCHANGED <<status, pm_reload, pm_respawn, parent, prev_ctx, workers,
                   reloading, n, i, nelem, si, ctxs, conns, chans, children,
                   nsig, pre, last, mig, sd_writes, spawn_fail,
                   npass, nburst>>

\* Lines 205-208: the quit command is written on the worker's channel; the
\* write may fail, which is only logged.  worker_nci->chan is dereferenced:
\* a worker that has no channel makes the master crash here.
SdWrite ==
    /\ pc = "sd_write"
    /\ IF w.chan = NULL
       THEN /\ pc' = "crashed"
            /\ UNCHANGED <<si, chans, sd_writes>>
       ELSE /\ \E ok \in BOOLEAN :
                  chans' = [chans EXCEPT
                               ![w.chan].quits = @ + 1,
                               ![w.chan].delivered = @ \/ ok,
                               ![w.chan].uaf = @ \/ ~chans[w.chan].open]
            /\ sd_writes' = Append(sd_writes, w.chan)
            /\ SdAdvance("sd_write")
    /\ UNCHANGED <<status, pm_reload, pm_respawn, parent, prev_ctx, workers,
                   old_workers, reloading, n, i, nelem, w, ctxs, conns,
                   children, nsig, pre, last, mig, spawn_fail,
                   npass, nburst>>

\* Line 209: nc_dealloc_channel(worker_nci->chan).
SdDealloc ==
    /\ pc = "sd_dealloc"
    /\ IF w.chan = NULL
       THEN /\ pc' = "crashed"
            /\ UNCHANGED <<si, chans>>
       ELSE /\ chans' = [chans EXCEPT ![w.chan].open = FALSE]
            /\ SdAdvance("sd_dealloc")
    /\ UNCHANGED <<status, pm_reload, pm_respawn, parent, prev_ctx, workers,
                   old_workers, reloading, n, i, nelem, w, ctxs, conns,
                   children, nsig, pre, last, mig, sd_writes, spawn_fail,
                   npass, nburst>>

\* Line 211: core_ctx_destroy(worker_nci->ctx).
SdDestroy ==
    /\ pc = "sd_destroy"
    /\ LET r == core_ctx_destroy(ctxs, conns, w.ctx)
       IN  /\ ctxs' = r.ctxs
           /\ conns' = r.conns
    /\ SdAdvance("sd_destroy")
    /\ UNCHANGED <<status, pm_reload, pm_respawn, parent, prev_ctx, workers,
                   old_workers, reloading, n, i, nelem, w, chans, children,
                   nsig, pre, last, mig, sd_writes, spawn_fail,
                   npass, nburst>>

\* Lines 214-215 and 153 without line 94: no spawn pass is requested.
SdDeinit_NoRespawn ==
    /\ pc = "sd_loop"
    /\ ~SdMore
    /\ last' = "ok"
    /\ pc' = "respawn_check"
    /\ UNCHANGED <<status, pm_reload, pm_respawn, parent, prev_ctx, workers,
                   old_workers, reloading, n, i, nelem, si, w, ctxs, conns,
                   chans, children, nsig, pre, mig, sd_writes, spawn_fail,
                   npass, nburst>>

\* Lines 214-215, 153 and 94: array_deinit, both functions return NC_OK,
\* and the cycle requests the spawn pass for the new generation.
SdDeinit ==
    /\ pc = "sd_loop"
    /\ ~SdMore
    /\ pm_respawn' = TRUE
    /\ last' = "ok"
    /\ pc' = "respawn_check"
    /\ UNCHANGED <<status, pm_reload, parent, prev_ctx, workers, old_workers,
                   reloading, n, i, nelem, si, w, ctxs, conns, chans, children,
                   nsig, pre, mig, sd_writes, spawn_fail,
                   npass, nburst>>

\* --------------------------------------------------------- nc_spawn_workers
\* Lines 100-109: what the cycle does with the status of nc_spawn_workers.
AfterSpawn_Ignore(st) == "sigsuspend"

AfterSpawn(st) == IF st # "NC_OK" THEN "returned" ELSE "sigsuspend"

\* Lines 165-167: nc_alloc_channel succeeds for worker i.
SpawnAlloc ==
    /\ pc = "spawn_loop"
    /\ i < array_n(workers)
    /\ chans' = Append(chans, [open |-> TRUE, quits |-> 0, delivered |-> FALSE,
                               uaf |-> FALSE])
    /\ workers' = [workers EXCEPT ![i + 1].chan = Len(chans) + 1]
    /\ pc' = "spawn_fork"
    /\ UNCHANGED <<status, pm_reload, pm_respawn, parent, prev_ctx, old_workers,
                   reloading, n, i, nelem, si, w, ctxs, conns, children, nsig,
                   pre, last, mig, sd_writes, spawn_fail,
                   npass, nburst>>

\* Lines 167-170: nc_alloc_channel returns NULL; NC_ENOMEM.
SpawnAllocFail ==
    /\ pc = "spawn_loop"
    /\ i < array_n(workers)
    /\ workers' = [workers EXCEPT ![i + 1].chan = NULL]
    /\ status' = "NC_ENOMEM"
    /\ pc' = AfterSpawn("NC_ENOMEM")
    /\ spawn_fail' = i
    /\ UNCHANGED <<pm_reload, pm_respawn, parent, prev_ctx, old_workers,
                   reloading, n, i, nelem, si, w, ctxs, conns, chans, children,
                   nsig, pre, last, mig, sd_writes,
                   npass, nburst>>

\* What fork() hands to the child of the memory the prune and the worker run
\* loop read: the workers array, the pool array of every worker's context,
\* and the proxy connections that are open (the descriptors are duplicated).
Inherit(ws, cx, cn) ==
    [workers |-> ws,
     pools   |-> [k \in DOMAIN ws |-> cx[ws[k].ctx].pool],
     open    |-> {c \in DOMAIN cn : cn[c].open}]

\* Lines 172-188 with line 185 left out: the parent does not record the pid.
SpawnFork_NoPid ==
    /\ pc = "spawn_fork"
    /\ children' = Append(children, [pid |-> Len(children) + 1, idx |-> i,
                                     ctx |-> workers[i + 1].ctx,
                                     chan |-> workers[i + 1].chan,
                                     ppid |-> MasterPid,
                                     pc |-> "forked",
                                     pm_myrole |-> "MASTER",
                                     i |-> i,
                                     mem |-> Inherit(workers, ctxs, conns)])
    /\ i' = i + 1
    /\ pc' = "spawn_loop"
    /\ UNCHANGED <<status, pm_reload, pm_respawn, parent, prev_ctx, workers,
                   old_workers, reloading, n, nelem, si, w, ctxs, conns, chans,
                   nsig, pre, last, mig, sd_writes, spawn_fail, npass, nburst>>

\* Lines 172 and 184-188: fork succeeds; the parent records the child's pid.
\* The child is a process of its own from here on: it starts at line 176
\* with the parent's pm_myrole, loop index and memory.
SpawnFork ==
    /\ pc = "spawn_fork"
    /\ children' = Append(children, [pid |-> Len(children) + 1, idx |-> i,
                                     ctx |-> workers[i + 1].ctx,
                                     chan |-> workers[i + 1].chan,
                                     ppid |-> MasterPid,
                                     pc |-> "forked",
                                     pm_myrole |-> "MASTER",
                                     i |-> i,
                                     mem |-> Inherit(workers, ctxs, conns)])
    /\ workers' = [workers EXCEPT ![i + 1].pid = Len(children) + 1]
    /\ i' = i + 1
    /\ pc' = "spawn_loop"
    /\ UNCHANGED <<status, pm_reload, pm_respawn, parent, prev_ctx, old_workers,
                   reloading, n, nelem, si, w, ctxs, conns, chans, nsig, pre,
                   last, mig, sd_writes, spawn_fail,
                   npass, nburst>>

\* Lines 172-175: fork fails; NC_ERROR.
SpawnForkFail ==
    /\ pc = "spawn_fork"
    /\ status' = "NC_ERROR"
    /\ pc' = AfterSpawn("NC_ERROR")
    /\ spawn_fail' = i
    /\ UNCHANGED <<pm_reload, pm_respawn, parent, prev_ctx, workers,
                   old_workers, reloading, n, i, nelem, si, w, ctxs, conns,
                   chans, children, nsig, pre, last, mig, sd_writes,
                   npass, nburst>>

\* Lines 165 and 190, then 101-107: every worker is forked, NC_OK, and the
\* cycle goes on to sigsuspend.
SpawnDone ==
    /\ pc = "spawn_loop"
    /\ i >= array_n(workers)
    /\ status' = "NC_OK"
    /\ pc' = AfterSpawn("NC_OK")
    /\ UNCHANGED <<pm_reload, pm_respawn, parent, prev_ctx, workers,
                   old_workers, reloading, n, i, nelem, si, w, ctxs, conns,
                   chans, children, nsig, pre, last, mig, sd_writes,
                   spawn_fail,
                   npass, nburst>>

\* --------------------------------------------------------- the forked child
\* A child is a process of its own: it reads and writes its copy of the
\* memory (children[q].mem, pm_myrole, i) and nothing of the master's.
master_vars == <<pc, status, pm_reload, pm_respawn, parent, prev_ctx, workers,
                 old_workers, reloading, n, i, nelem, si, w, ctxs, conns,
                 chans, nsig, pre, last, mig, sd_writes, spawn_fail, npass,
                 nburst>>

\* proxy_deinit(ctx) on the context of worker k: every pool of the context
\* closes its proxy connection in this process and forgets it.
proxy_deinit(mem, k) ==
    LET pool == mem.pools[k]
    IN  [mem EXCEPT
            !.pools[k] = [p \in DOMAIN pool |->
                             [pool[p] EXCEPT !.p_conn = NULL]],
            !.open = mem.open \ {pool[p].p_conn : p \in DOMAIN pool}]

\* Lines 35-46 without the test of line 41: the own proxies are closed too.
nc_close_other_proxy_All(mem, k, self) == proxy_deinit(mem, k)

\* Lines 35-46: the callback on element k of the workers array.
nc_close_other_proxy(mem, k, self) ==
    IF k = self THEN mem ELSE proxy_deinit(mem, k)

\* array_each from element k on; the callback always returns NC_OK.
RECURSIVE CloseFrom(_, _, _)
CloseFrom(mem, k, self) ==
    IF k > Len(mem.workers) THEN mem
    ELSE CloseFrom(nc_close_other_proxy(mem, k, self), k + 1, self)

\* Lines 49-53.
nc_close_other_proxies(mem, self) == CloseFrom(mem, 1, self)

\* Lines 176-181: the child branch of the switch up to the call of
\* nc_worker_process.
ChildPrune(q) ==
    /\ children[q].pc = "forked"
    /\ children' = [children EXCEPT
          ![q].pm_myrole = "WORKER",
          ![q].mem = nc_close_other_proxies(
                        [@ EXCEPT !.workers[children[q].i + 1].pid =
                                      children[q].pid],
                        children[q].i + 1),
          ![q].pc = "worker_process"]
    /\ UNCHANGED master_vars

\* Lines 224-230: ASSERT(nci->role == ROLE_WORKER); the signal mask is
\* emptied.
WorkerSigmask(q) ==
    /\ children[q].pc = "worker_process"
    /\ children' = [children EXCEPT ![q].pc = "core_init_instance"]
    /\ UNCHANGED master_vars

\* Lines 232-236: core_init_instance succeeds.
WorkerInit(q) ==
    /\ children[q].pc = "core_init_instance"
    /\ children' = [children EXCEPT ![q].pc = "nc_add_channel_event"]
    /\ UNCHANGED master_vars

\* Lines 238-242: the channel's worker end is registered; the run loop is
\* entered.
WorkerAddEvent(q) ==
    /\ children[q].pc = "nc_add_channel_event"
    /\ children' = [children EXCEPT ![q].pc = "core_loop"]
    /\ UNCHANGED master_vars

\* Lines 227-230, 232-236, 238-242: sigprocmask, core_init_instance or
\* nc_add_channel_event fails; the `return` of line 229, 235 or 241 leads
\* back to line 183 of nc_spawn_workers.
WorkerReturn(q) ==
    /\ children[q].pc \in {"worker_process", "core_init_instance",
                           "nc_add_channel_event"}
    /\ children' = [children EXCEPT ![q].pc = "not_reached"]
    /\ UNCHANGED master_vars

\* Lines 246-254: the run loop is left, because pm_quit is set or because
\* core_loop failed, and the process exits.
WorkerExit(q) ==
    /\ children[q].pc = "core_loop"
    /\ children' = [children EXCEPT ![q].pc = "exited"]
    /\ UNCHANGED master_vars

\* Line 183 in a build where NOT_REACHED() panics: the process aborts.
NotReachedAbort(q) ==
    /\ children[q].pc = "not_reached"
    /\ children' = [children EXCEPT ![q].pc = "aborted"]
    /\ UNCHANGED master_vars

\* Line 183 in a build where NOT_REACHED() is empty or only logs: there is
\* no break, control falls into `default:` (lines 184-187) and the for loop
\* of line 165 goes on in the child.
NotReachedFallThrough(q) ==
    /\ children[q].pc = "not_reached"
    /\ children' = [children EXCEPT ![q].i = @ + 1, ![q].pc = "spawn_loop"]
    /\ UNCHANGED master_vars

\* Lines 165-188 run by a child: the channel is allocated in the child's
\* memory and the child forks the next worker of its workers array.
ChildSpawnFork(q) ==
    /\ children[q].pc = "spawn_loop"
    /\ children[q].i < Len(children[q].mem.workers)
    /\ LET me  == children[q]
           pid == Len(children) + 1
           m   == [me.mem EXCEPT !.workers[me.i + 1].pid = pid]
       IN  children' =
              Append([children EXCEPT ![q].i = @ + 1, ![q].mem = m],
                     [pid |-> pid, idx |-> me.i,
                      ctx |-> me.mem.workers[me.i + 1].ctx,
                      chan |-> NULL,
                      ppid |-> me.pid,
                      pc |-> "forked",
                      pm_myrole |-> me.pm_myrole,
                      i |-> me.i,
                      mem |-> me.mem])
    /\ UNCHANGED master_vars

\* Lines 167-175 run by a child: nc_alloc_channel or fork fails, the child
\* returns from nc_spawn_workers and from the cycle (lines 101-109).
ChildSpawnFail(q) ==
    /\ children[q].pc = "spawn_loop"
    /\ children[q].i < Len(children[q].mem.workers)
    /\ children' = [children EXCEPT ![q].pc = "returned"]
    /\ UNCHANGED master_vars

\* Lines 165 and 190, then 101-107 run by a child: it blocks in the
\* sigsuspend of the master control loop.
ChildSpawnDone(q) ==
    /\ children[q].pc = "spawn_loop"
    /\ children[q].i >= Len(children[q].mem.workers)
    /\ children' = [children EXCEPT ![q].pc = "sigsuspend"]
    /\ UNCHANGED master_vars

\* ---------------------------------------------------------- specification
Next ==
    \/ Start
    \/ LoopTop
    \/ ReloadClear
    \/ ReloadCtxFail
    \/ ReloadCtx
    \/ RespawnCheck
    \/ WakeUp
    \/ nc_reload_config
    \/ SetupInit
    \/ SetupInitFail
    \/ SetupClone
    \/ SetupCloneFail
    \/ SetupMigrate
    \/ SetupBind
    \/ SetupBindFail
    \/ SetupDoneFresh
    \/ SetupDoneReload
    \/ SdPop
    \/ SdWrite
    \/ SdDealloc
    \/ SdDestroy
    \/ SdDeinit
    \/ SpawnAlloc
    \/ SpawnAllocFail
    \/ SpawnFork
    \/ SpawnForkFail
    \/ SpawnDone

Spec == Init /\ [][Next]_vars

\* The start-up of the master (no reload request) together with the steps
\* of every process it forks.
NextFork ==
    \/ Start
    \/ LoopTop
    \/ RespawnCheck
    \/ WakeUp
    \/ SetupInit
    \/ SetupInitFail
    \/ SetupClone
    \/ SetupCloneFail
    \/ SetupBind
    \/ SetupBindFail
    \/ SetupDoneFresh
    \/ SpawnAlloc
    \/ SpawnAllocFail
    \/ SpawnFork
    \/ SpawnForkFail
    \/ SpawnDone
    \/ \E q \in DOMAIN children : ChildPrune(q)
    \/ \E q \in DOMAIN children : WorkerSigmask(q)
    \/ \E q \in DOMAIN children : WorkerInit(q)
    \/ \E q \in DOMAIN children : WorkerAddEvent(q)
    \/ \E q \in DOMAIN children : WorkerReturn(q)
    \/ \E q \in DOMAIN children : WorkerExit(q)
    \/ \E q \in DOMAIN children : NotReachedAbort(q)
    \/ \E q \in DOMAIN children : NotReachedFallThrough(q)
    \/ \E q \in DOMAIN children : ChildSpawnFork(q)
    \/ \E q \in DOMAIN children : ChildSpawnFail(q)
    \/ \E q \in DOMAIN children : ChildSpawnDone(q)

SpecFork == Init /\ [][NextFork]_vars


\* ------------------------------------------------------------------ claims
\* Pools of source array src that have the bind address of destination pool
\* d of array dst.
SameAddr(src, dst, d) ==
    {s \in DOMAIN src : string_compare(src[s].addrstr, dst[d].addrstr) = 0}

Min(S) == CHOOSE m \in S : \A k \in S : m <= k

Returned(m) == m # None /\ ~m.crashed

\* C1 as stated: after nc_migrate_proxies(dst, src) has run, every source
\* pool s and destination pool d with equal bind addresses, d without a
\* connection before the call, end with d owning the connection s owned and
\* s owning none.
C1_MigrationCorrectness_AsStated ==
    Returned(mig) =>
        \A s \in DOMAIN mig.pre_src, d \in DOMAIN mig.pre_dst :
            (/\ string_compare(mig.pre_dst[d].addrstr, mig.pre_src[s].addrstr) = 0
             /\ mig.pre_dst[d].p_conn = NULL)
            => /\ mig.post_dst[d].p_conn = mig.pre_src[s].p_conn
               /\ mig.post_src[s].p_conn = NULL

\* C1 amended: whenever nc_migrate_proxies(dst, src) returns, every
\* destination pool d that owned no connection before the call and has a
\* source pool with its bind address owns the connection that the FIRST such
\* source pool (in source-array order) owned before the call, the
\* connection's owner names d, and that source pool's reference is NULL.
C1_MigrationCorrectness ==
    Returned(mig) =>
        \A d \in DOMAIN mig.pre_dst :
            (/\ mig.pre_dst[d].p_conn = NULL
             /\ SameAddr(mig.pre_src, mig.pre_dst, d) # {})
            => LET s == Min(SameAddr(mig.pre_src, mig.pre_dst, d))
                   c == mig.pre_src[s].p_conn
               IN  /\ c # NULL
                   /\ mig.post_dst[d].p_conn = c
                   /\ mig.post_src[s].p_conn = NULL
                   /\ conns[c].owner = <<mig.d, d>>

\* C1 witness: a call that returned after moving a connection.
C1_Witness ==
    /\ Returned(mig)
    /\ \E d \in DOMAIN mig.post_dst :
          mig.pre_dst[d].p_conn = NULL /\ mig.post_dst[d].p_conn # NULL

\* The pools of live contexts that reference connection c.
Holders(c) ==
    {xp \in UNION {{<<x, p>> : p \in DOMAIN ctxs[x].pool} : x \in DOMAIN ctxs} :
        ctxs[xp[1]].alive /\ ctxs[xp[1]].pool[xp[2]].p_conn = c}

\* C2: in every reachable state of the master each open connection is
\* referenced by exactly one pool, its owner back-reference names that pool,
\* and no live pool references a closed connection.
C2_ExclusiveOwnership ==
    /\ \A c \in DOMAIN conns :
          conns[c].open => Holders(c) = {conns[c].owner}
    /\ \A x \in DOMAIN ctxs : \A p \in DOMAIN ctxs[x].pool :
          (ctxs[x].alive /\ ctxs[x].pool[p].p_conn # NULL)
          => conns[ctxs[x].pool[p].p_conn].open

\* C2 witness: a reload has completed, the old generation is destroyed, and
\* a connection an old pool owned is now owned by a pool of the new
\* generation.
C2_Witness ==
    /\ pc = "respawn_check"
    /\ last = "ok"
    /\ \E k \in DOMAIN pre.workers, j \in DOMAIN workers :
          \E p \in DOMAIN pre.ctxs[pre.workers[k].ctx].pool :
             LET c == pre.ctxs[pre.workers[k].ctx].pool[p].p_conn
             IN  /\ c # NULL
                 /\ conns[c].open
                 /\ conns[c].owner[1] = workers[j].ctx
                 /\ ~ctxs[pre.workers[k].ctx].alive

\* C3: when two source pools have the bind address of one destination pool,
\* the first of them in source-array order hands its connection to the
\* destination; a later one is skipped with an error logged, keeps its own
\* connection, and the destination's connection is not overwritten.
C3_NoDuplication ==
    Returned(mig) =>
        \A d \in DOMAIN mig.pre_dst :
            \A s2 \in SameAddr(mig.pre_src, mig.pre_dst, d) :
                LET s1 == Min(SameAddr(mig.pre_src, mig.pre_dst, d))
                IN  (/\ s1 < s2
                     /\ mig.pre_src[s1].p_conn # NULL
                     /\ mig.pre_src[s2].p_conn # NULL
                     /\ mig.pre_dst[d].p_conn = NULL)
                    => /\ mig.post_dst[d].p_conn = mig.pre_src[s1].p_conn
                       /\ mig.post_src[s2].p_conn = mig.pre_src[s2].p_conn
                       /\ conns[mig.pre_src[s2].p_conn].owner = <<mig.s, s2>>
                       /\ mig.nerr >= 1

\* C3 witness: a call that returned after skipping a second source pool.
C3_Witness ==
    /\ Returned(mig)
    /\ mig.nerr >= 1
    /\ \E s \in DOMAIN mig.post_src :
          mig.post_src[s].p_conn # NULL
          /\ \E d \in DOMAIN mig.post_dst :
                /\ s \in SameAddr(mig.pre_src, mig.pre_dst, d)
                /\ mig.post_dst[d].p_conn # NULL

\* C4 as stated: when two destination pools have the bind address of one
\* connected source pool, nc_migrate_proxies completes normally, exactly one
\* of the two destinations receives the source's connection, the other is
\* left without a connection, and a collision error is logged.
C4_DestinationCollision ==
    mig # None =>
        \A s \in DOMAIN mig.pre_src :
            \A d1, d2 \in DOMAIN mig.pre_dst :
                (/\ d1 < d2
                 /\ mig.pre_src[s].p_conn # NULL
                 /\ s \in SameAddr(mig.pre_src, mig.pre_dst, d1)
                 /\ s \in SameAddr(mig.pre_src, mig.pre_dst, d2)
                 /\ mig.pre_dst[d1].p_conn = NULL
                 /\ mig.pre_dst[d2].p_conn = NULL)
                => /\ ~mig.crashed
                   /\ \/ /\ mig.post_dst[d1].p_conn = mig.pre_src[s].p_conn
                         /\ mig.post_dst[d2].p_conn = NULL
                      \/ /\ mig.post_dst[d2].p_conn = mig.pre_src[s].p_conn
                         /\ mig.post_dst[d1].p_conn = NULL
                   /\ mig.nerr >= 1

\* C5 as stated: after a reload pass in which the builder failed, the
\* master's active context is the one from before the pass, its worker
\* collection is the one from before the pass, and every pool of the old
\* generation owns the connection it owned before the pass.
C5_ReloadAllOrNothing ==
    last = "setup_failed" =>
        /\ parent.ctx = pre.ctx
        /\ workers = pre.workers
        /\ \A k \in DOMAIN pre.workers :
              ctxs[pre.workers[k].ctx].pool = pre.ctxs[pre.workers[k].ctx].pool

\* C6 as stated: whenever the master is between passes (blocked in
\* sigsuspend), the number of worker instances equals the worker_processes
\* value of the active context's configuration.
C6_CountInvariant ==
    pc = "sigsuspend" =>
        array_n(workers) = ctxs[parent.ctx].cf.worker_processes


\* Every pool of every worker of collection ws owns a connection: the
\* listener binding of each of these workers has completed.
AllBound(ws) ==
    \A k \in DOMAIN ws : \A p \in DOMAIN ctxs[ws[k].ctx].pool :
        ctxs[ws[k].ctx].pool[p].p_conn # NULL

\* All n workers of the generation under construction are built and bound.
NewGenerationReady ==
    reloading /\ array_n(workers) = n /\ i = n /\ AllBound(workers)

\* A step that writes on a channel, releases a channel or destroys a context.
TearDownStep ==
    \/ \E c \in DOMAIN chans : chans'[c] # chans[c]
    \/ \E x \in DOMAIN ctxs : ctxs[x].alive /\ ~ctxs'[x].alive

\* The old generation as it was when the reload pass began is untouched:
\* every context alive, every channel open and never written.
OldGenerationIntact ==
    \A k \in DOMAIN pre.workers :
        /\ ctxs[pre.workers[k].ctx].alive
        /\ pre.workers[k].chan # NULL =>
              /\ chans[pre.workers[k].chan].open
              /\ chans[pre.workers[k].chan].quits = 0

\* C7: in a reload pass no quit command is written, no channel released and
\* no context destroyed before all n workers of the new generation have
\* completed their listener binding; a pass in which the builder fails
\* performs none of these on the old generation.
C7_NewBeforeOld ==
    /\ [][TearDownStep => NewGenerationReady]_vars
    /\ [](last = "setup_failed" => (sd_writes = <<>> /\ OldGenerationIntact))
    /\ [](pc \in {"sd_loop", "sd_write", "sd_dealloc", "sd_destroy"}
             => (reloading /\ array_n(workers) = n /\ AllBound(workers)))

\* C7 witness: a reload that builds two workers has bound both and is
\* releasing the channel of an old worker.
C7_Witness ==
    /\ pc = "sd_dealloc"
    /\ n = 2
    /\ array_n(workers) = 2
    /\ AllBound(workers)

\* C8: when nc_shutdown_workers has run to its end on a generation of K
\* descriptors, the collection is empty and exactly K quit writes were
\* attempted, one on the channel of each descriptor (none twice, none
\* skipped), whatever the size of the new generation.
C8_ShutdownComplete ==
    (pc = "respawn_check" /\ last = "ok") =>
        /\ array_n(old_workers) = 0
        /\ Len(sd_writes) = Len(pre.workers)
        /\ nelem = Len(pre.workers)
        /\ \A k \in DOMAIN pre.workers :
              Cardinality({q \in DOMAIN sd_writes :
                              sd_writes[q] = pre.workers[k].chan}) = 1
        /\ \A k1, k2 \in DOMAIN pre.workers :
              k1 # k2 => pre.workers[k1].chan # pre.workers[k2].chan

\* C8 witness: the shutdown of an old generation larger than the new one
\* has completed.
C8_Witness ==
    /\ pc = "respawn_check"
    /\ last = "ok"
    /\ Len(pre.workers) > array_n(workers)
    /\ Len(sd_writes) = 2

\* C9: for the worker the sequencer is processing, the quit write precedes
\* the release of its channel, which precedes the destruction of its
\* context; no write is ever issued on a released channel.
C9_ShutdownOrder ==
    /\ \A c \in DOMAIN chans :
          /\ ~chans[c].uaf
          /\ ~chans[c].open => chans[c].quits = 1
    /\ pc = "sd_dealloc" =>
          /\ w.chan # NULL
          /\ chans[w.chan].open
          /\ chans[w.chan].quits = 1
          /\ ctxs[w.ctx].alive
    /\ pc = "sd_destroy" =>
          /\ w.chan # NULL
          /\ ~chans[w.chan].open
          /\ chans[w.chan].quits = 1
          /\ ctxs[w.ctx].alive
    /\ pre # None =>
          \A k \in DOMAIN pre.workers :
              ~ctxs[pre.workers[k].ctx].alive =>
                  /\ pre.workers[k].chan # NULL
                  /\ ~chans[pre.workers[k].chan].open

\* C9 witness: a worker's quit command is written and its channel released;
\* its context is about to be destroyed.
C9_Witness ==
    /\ pc = "sd_destroy"
    /\ ~chans[w.chan].open
    /\ chans[w.chan].quits = 1

\* C10: once channel allocation or fork has failed for worker i in a spawn
\* pass, no worker with a larger index is forked, the master has left the
\* control loop with a failure status, and it takes no further step.
C10_SpawnFailureFatal ==
    spawn_fail # -1 =>
        /\ pc = "returned"
        /\ status \in {"NC_ENOMEM", "NC_ERROR"}
        /\ i = spawn_fail
        /\ \A k \in DOMAIN workers :
              k - 1 >= spawn_fail =>
                  /\ workers[k].pid = parent.pid
                  /\ ~\E q \in DOMAIN children :
                        /\ children[q].idx = k - 1
                        /\ children[q].ctx = workers[k].ctx

\* C10 witness: a spawn pass over two descriptors failed at the first one.
C10_Witness ==
    /\ spawn_fail = 0
    /\ array_n(workers) = 2
    /\ pc = "returned"

\* C11: reload requests that arrive while pm_reload is already set are
\* absorbed: the reload passes begun, plus the one still pending when the
\* flag is set, equal the number of times a request found the flag clear,
\* whatever the number k >= 1 of requests in each such group; and the
\* passes never outnumber the requests.
C11_ReloadCoalescing ==
    /\ npass + (IF pm_reload THEN 1 ELSE 0) = nburst
    /\ nburst <= nsig
    /\ npass <= nsig

\* C11 witness: two requests were delivered before the master tested the
\* flag, and the single pass they caused has completed.
C11_Witness ==
    /\ nsig = 2
    /\ nburst = 1
    /\ npass = 1
    /\ ~pm_reload
    /\ last = "ok"

\* C12: a process whose role is WORKER is never found in the loop of
\* nc_spawn_workers or in the master control loop (blocked in its
\* sigsuspend or returning from it), and no process is forked by a process
\* other than the master.
C12_RoleSeparation ==
    \A q \in DOMAIN children :
        /\ children[q].pm_myrole = "WORKER" =>
              children[q].pc \notin {"spawn_loop", "sigsuspend", "returned"}
        /\ children[q].ppid = MasterPid

\* C13: in the builder, once new worker i is cloned, nc_migrate_proxies is
\* called for it exactly when the build is a reload and i is below the size
\* M of the generation in place when the pass began; otherwise (fresh
\* start, or i >= M) the builder goes straight on to bind the worker's
\* pools.  When it is called, the source is the context of old worker i
\* and the destination the context of new worker i.
C13_Positional ==
    /\ [](pc \in {"setup_migrate", "setup_bind"} =>
            /\ (pc = "setup_migrate" \/ mig # None) =>
                  reloading /\ i < Len(pre.workers)
            /\ (pc = "setup_bind" /\ mig = None) =>
                  ~(reloading /\ i < Len(pre.workers))
            /\ mig # None =>
                  /\ mig.s = pre.workers[i + 1].ctx
                  /\ mig.d = workers[i + 1].ctx)
    /\ [][(pc = "setup_loop" /\ Len(ctxs') > Len(ctxs)) =>
             pc' = IF reloading /\ i < Len(pre.workers)
                   THEN "setup_migrate" ELSE "setup_bind"]_vars

\* C13 witness: in a reload from one worker to two, the second worker has
\* been cloned and goes on to bind without any migration.
C13_Witness ==
    /\ pc = "setup_bind"
    /\ reloading
    /\ Len(pre.workers) = 1
    /\ n = 2
    /\ i = 1
    /\ mig = None

\* The pools of old worker k as they were when the reload pass began, and
\* the pools of new worker k as they are now.
OldPools(k) == pre.ctxs[pre.workers[k].ctx].pool

NewPools(k) == ctxs[workers[k].ctx].pool

Matched == 1..Min({Len(pre.workers), Len(workers)})

ReloadDone == pc = "respawn_check" /\ last = "ok"

\* C14 as stated: after a successful reload, for every old pool p and new
\* pool q of the positionally matching workers with the same bind address,
\* q holds the connection p held, that connection is open, and the old
\* context is destroyed.
C14_MigratedSurvive_AsStated ==
    ReloadDone =>
        \A k \in Matched :
            \A p \in DOMAIN OldPools(k), q \in DOMAIN NewPools(k) :
                string_compare(NewPools(k)[q].addrstr,
                               OldPools(k)[p].addrstr) = 0
                => LET c == OldPools(k)[p].p_conn
                   IN  /\ c # NULL
                       /\ NewPools(k)[q].p_conn = c
                       /\ conns[c].open
                       /\ ~ctxs[pre.workers[k].ctx].alive

\* C14 amended: after a successful reload, every new pool q of worker k
\* that has an old pool of old worker k on its bind address holds the
\* connection object that the FIRST such old pool (in pool-array order)
\* held when the pass began, whatever the two names; the connection is
\* open, owned by q, and the old context is destroyed.
C14_MigratedSurvive ==
    ReloadDone =>
        \A k \in Matched :
            \A q \in DOMAIN NewPools(k) :
                SameAddr(OldPools(k), NewPools(k), q) # {}
                => LET p == Min(SameAddr(OldPools(k), NewPools(k), q))
                       c == OldPools(k)[p].p_conn
                   IN  /\ c # NULL
                       /\ NewPools(k)[q].p_conn = c
                       /\ conns[c].open
                       /\ conns[c].owner = <<workers[k].ctx, q>>
                       /\ ~ctxs[pre.workers[k].ctx].alive

\* C14 witness: a successful reload in which a new pool took over the
\* connection of an old pool with the same address and another name.
C14_Witness ==
    /\ ReloadDone
    /\ \E k \in Matched :
          \E p \in DOMAIN OldPools(k), q \in DOMAIN NewPools(k) :
             /\ OldPools(k)[p].addrstr = NewPools(k)[q].addrstr
             /\ OldPools(k)[p].name # NewPools(k)[q].name
             /\ OldPools(k)[p].p_conn # NULL
             /\ NewPools(k)[q].p_conn = OldPools(k)[p].p_conn
             /\ ~ctxs[pre.workers[k].ctx].alive

\* The master has forked a child for descriptor d.
Forked(d) ==
    \E q \in DOMAIN children :
        children[q].ppid = MasterPid /\ children[q].ctx = d.ctx

\* The worker descriptors the master holds: those of parent_nci->workers
\* and, while a reload build is under way, those of its local old_workers.
Descriptors ==
    {workers[k] : k \in DOMAIN workers} \cup
    (IF reloading /\ pc \in {"setup_loop", "setup_migrate", "setup_bind",
                             "sd_loop", "sd_write", "sd_dealloc", "sd_destroy"}
     THEN {old_workers[k] : k \in DOMAIN old_workers} ELSE {})

\* C15: in every state of the master, the pid of a worker descriptor (of
\* the generation in place or of the one being replaced) differs from the
\* value the clone copied from the master's own instance exactly when the
\* master has forked a child for that descriptor, and it is then that
\* child's pid; while a generation is being built none of its descriptors
\* has a pid.
C15_PidInvariant ==
    /\ \A d \in Descriptors :
          /\ d.pid # MasterPid <=> Forked(d)
          /\ d.pid # MasterPid =>
                /\ d.pid \in DOMAIN children
                /\ children[d.pid].ctx = d.ctx
    /\ pc \in {"setup_loop", "setup_migrate", "setup_bind"} =>
          \A k \in DOMAIN workers : workers[k].pid = MasterPid

\* C15 witness: in a spawn pass over two descriptors the first is forked
\* and carries its child's pid, the second is not forked yet.
C15_Witness ==
    /\ pc = "spawn_loop"
    /\ array_n(workers) = 2
    /\ i = 1
    /\ workers[1].pid # MasterPid
    /\ Forked(workers[1])
    /\ workers[2].pid = MasterPid

\* C16: a reload pass that built the new context and the new generation
\* leaves a spawn request pending; the request is consumed only by entering
\* the spawn pass (loop index 0); the master never blocks in sigsuspend
\* with the request pending, and when it goes from the spawn pass to
\* sigsuspend it has forked exactly one child for every descriptor of the
\* generation.  A reload pass that failed leaves the spawn request as it
\* was when the pass began.
C16_ReloadThenRespawn ==
    /\ [](/\ last = "ok" => pm_respawn
          /\ pc = "sigsuspend" => ~pm_respawn
          /\ last \in {"ctx_failed", "setup_failed"} =>
                pm_respawn = pre.respawn)
    /\ [][/\ (pm_respawn /\ ~pm_respawn') => pc' = "spawn_loop" /\ i' = 0
          /\ (pc = "spawn_loop" /\ pc' = "sigsuspend") =>
                \A k \in DOMAIN workers :
                    Cardinality({q \in DOMAIN children :
                                    /\ children[q].ctx = workers[k].ctx
                                    /\ children[q].pid = workers[k].pid}) = 1
         ]_vars

\* C16 witness: the only reload pass of the run succeeded (it has shut the
\* old generation down), the spawn pass has forked both workers of the new
\* generation, and the master blocks again.
C16_Witness ==
    /\ pc = "sigsuspend"
    /\ npass = 1
    /\ \E x \in DOMAIN ctxs : ~ctxs[x].alive
    /\ array_n(workers) = 2
    /\ \A k \in DOMAIN workers : Forked(workers[k])

\* The connections the pools of worker k reference in memory image m.
ConnsOf(m, k) ==
    {m.pools[k][p].p_conn : p \in DOMAIN m.pools[k]} \ {NULL}

BeforeRunLoop ==
    {"worker_process", "core_init_instance", "nc_add_channel_event"}

\* C17: the prune step of the child forked for worker i (from line 176 to
\* the call of nc_worker_process) leaves the pools of worker i and the
\* open state of their connections as the child inherited them, leaves
\* every pool of every other worker j # i without a connection, the
\* connections they referenced being closed in the child, and changes
\* nothing in the master or in any other process.  Until the run loop
\* starts, the only connections open in the child are those of its own
\* pools.
C17_ChildPruning ==
    /\ [](\A q \in DOMAIN children :
            children[q].pc \in BeforeRunLoop =>
               LET m == children[q].mem
               IN  /\ \A j \in DOMAIN m.workers \ {children[q].i + 1} :
                         ConnsOf(m, j) = {}
                   /\ m.open \subseteq ConnsOf(m, children[q].i + 1))
    /\ [][\A q \in DOMAIN children :
            (children[q].pc = "forked" /\ children'[q].pc # "forked") =>
               LET m0 == children[q].mem
                   m1 == children'[q].mem
                   self == children[q].i + 1
               IN  /\ m1.pools[self] = m0.pools[self]
                   /\ ConnsOf(m0, self) \cap m1.open =
                         ConnsOf(m0, self) \cap m0.open
                   /\ \A j \in DOMAIN m0.workers \ {self} :
                         /\ ConnsOf(m1, j) = {}
                         /\ ConnsOf(m0, j) \cap m1.open = {}
                   /\ UNCHANGED master_vars
                   /\ \A r \in DOMAIN children \ {q} :
                         children'[r] = children[r]
         ]_vars

\* C17 witness: in a generation of two workers the child forked for the
\* second one has pruned: the first worker's pools are released in the
\* child, its own pool still holds its open connection, and the master
\* still holds both.
C17_Witness ==
    \E q \in DOMAIN children :
        /\ children[q].pc = "worker_process"
        /\ children[q].ppid = MasterPid
        /\ children[q].i = 1
        /\ Len(children[q].mem.workers) = 2
        /\ ConnsOf(children[q].mem, 1) = {}
        /\ ConnsOf(children[q].mem, 2) # {}
        /\ ConnsOf(children[q].mem, 2) \subseteq children[q].mem.open
        /\ \A k \in DOMAIN workers :
              \A p \in DOMAIN ctxs[workers[k].ctx].pool :
                 /\ ctxs[workers[k].ctx].pool[p].p_conn # NULL
                 /\ conns[ctxs[workers[k].ctx].pool[p].p_conn].open

\* C18: every descriptor nc_shutdown_workers takes up (popped at line 202,
\* then written to, released and destroyed) has a channel allocated by a
\* spawn pass.
C18_ShutdownOnlySpawned ==
    pc \in {"sd_write", "sd_dealloc", "sd_destroy"} => w.chan # NULL

\* C19: the master is never blocked in sigsuspend while pm_reload is set
\* (a request it would serve only after one more signal).  The one way out
\* of sigsuspend is the delivery of a signal (WakeUp, nc_reload_config).
C19_NoLostWakeup ==
    ~(pc = "sigsuspend" /\ pm_reload)

\* The processes the master has forked and to which it has not written a
\* quit command.
Unquit ==
    {q \in DOMAIN children :
        children[q].ppid = MasterPid /\ chans[children[q].chan].quits = 0}

\* C20: whenever the master is blocked in sigsuspend, every descriptor of
\* parent_nci->workers has exactly one forked, un-quit process, the one
\* whose pid and channel it records, and every forked, un-quit process is
\* the process of one of these descriptors.
C20_Correspondence ==
    pc = "sigsuspend" =>
        /\ \A k \in DOMAIN workers :
              Cardinality({q \in Unquit :
                              /\ children[q].pid = workers[k].pid
                              /\ children[q].chan = workers[k].chan}) = 1
        /\ \A q \in Unquit :
              \E k \in DOMAIN workers : children[q].pid = workers[k].pid

====
